---- MODULE Spec2Model ----
(***************************************************************************)
(* LLM Commentary (src/main.ts): an Obsidian plugin that sends the active  *)
(* markdown document to a model endpoint and renders the answer in a side  *)
(* panel.  The model covers the editor-change rate limiter, the two manual *)
(* triggers, activateView, getCommentary with its awaits (setViewState and *)
(* requestUrl), LlmCommentaryView.display, and the settings: loadSettings   *)
(* and the settings tab's three fields.                                    *)
(*                                                                         *)
(* The host (workspace, clock, network) is the environment: every value it *)
(* hands to the plugin is a nondeterministic input.  The commentary leaf,  *)
(* once opened, stays in the workspace.                                    *)
(***************************************************************************)
EXTENDS Integers, Sequences, FiniteSets, TLC

VARIABLES
    settings,                 \* this.settings (main.ts:51)
    data,                     \* what loadData()/saveData() persist
    default_settings,         \* the properties of the DEFAULT_SETTINGS object
    settings_target,          \* the object this.settings refers to
    last_api_call_timestamp,  \* main.ts:52
    leaf,                     \* the workspace's leaf of type llm-commentary-view
    panel,                    \* markdown rendered in LlmCommentaryView.containerEl
    procs,                    \* one record per getCommentary() invocation
    display_log,              \* history: every view.display call, in order
    first_edit,               \* history: the first editor-change event of a MarkdownView
    last_event,               \* history: the latest editor-change event
    resolved                  \* history: invocations in the order requestUrl settled

vars == <<settings, data, default_settings, settings_target,
          last_api_call_timestamp, leaf, panel, procs,
          display_log, first_edit, last_event, resolved>>

(* The settings object, the persisted data and the defaults. *)
settings_state == <<settings, data, default_settings, settings_target>>

----------------------------------------------------------------------------
(* Bounds of the model *)

MaxTriggers == 2   \* getCommentary() invocations per behaviour

(* Values Date.now() may return; successive reads are unordered. *)
ClockValues == {0, 5000, 6000, 11000}

----------------------------------------------------------------------------
(* Program constants *)

COOLDOWN_MS == 5000

waiting_response == "It looks like the user is still in the middle of a thought."

NO_API_KEY_MESSAGE == "No API key set. Please set one in the settings."

NO_ACTIVE_VIEW_MESSAGE == "No active markdown view found."

ASSERTION_FAILED == "Assertion failed"

DEFAULT_SETTINGS ==
    [claudeApiKey |-> "",
     prompt |-> "You are Scott Alexander, the popular internet writer.",  \* abridged
     model |-> "claude-sonnet-4-20250514"]

(* Object.assign({}, a, b): own properties of b override those of a. *)
ObjectAssign(a, b) ==
    [k \in (DOMAIN a) \cup (DOMAIN b) |-> IF k \in DOMAIN b THEN b[k] ELSE a[k]]

(* A mutation of loadSettings: Object.assign(DEFAULT_SETTINGS, data), the  *)
(* defaults object itself is the target.                                   *)
ObjectAssignTargetDefaults == "DEFAULT_SETTINGS"

(* The object Object.assign writes to and returns: its first argument, in  *)
(* loadSettings the literal {}, a new object.                              *)
ObjectAssignTarget == "new"

(* loadSettings: the defaults overridden by the persisted data. *)
loadSettings(stored) == ObjectAssign(DEFAULT_SETTINGS, stored)

----------------------------------------------------------------------------
(* Inputs of the environment *)

ApiKeys == {"", "sk-ant-key"}

(* Values of the settings tab's prompt and model fields. *)
Prompts == {DEFAULT_SETTINGS.prompt, "Comment as a copy editor.", ""}

Models == {DEFAULT_SETTINGS.model, "claude-3-5-haiku-latest", ""}

SettingFields == {"claudeApiKey", "prompt", "model"}

FieldValues == [claudeApiKey |-> ApiKeys, prompt |-> Prompts, model |-> Models,
                temperature |-> {"0.7"}]

(* loadData() of any version of the plugin or of a hand-edited file: an    *)
(* object with any of the three fields, and possibly a property that is no *)
(* setting of this version.                                                *)
PersistedData ==
    UNION {{d \in [S -> UNION {FieldValues[k] : k \in DOMAIN FieldValues}] :
                \A k \in S : d[k] \in FieldValues[k]} : S \in SUBSET DOMAIN FieldValues}

(* loadData(): nothing persisted yet (an object without properties), or a *)
(* settings object saved by an earlier session.                           *)
NoData == [k \in {} |-> ""]

StoredData ==
    {NoData} \cup
    {[claudeApiKey |-> k, prompt |-> DEFAULT_SETTINGS.prompt,
      model |-> DEFAULT_SETTINGS.model] : k \in ApiKeys}

(* First text fragments the endpoint may answer with: the sentinel, a text *)
(* that begins with it, a text that contains it, and one unrelated to it.  *)
ResponseTexts ==
    {waiting_response,
     waiting_response \o " Still, consider the opposite view.",
     "Quote: " \o waiting_response,
     "Consider the opposite view."}

(* response.json as the code reads it: the content array's text fragments. *)
Responses == {<<>>} \cup {<<t>> : t \in ResponseTexts}

(* Values requestUrl may reject with: an Error, or a value that is no Error. *)
Thrown ==
    {[is_error |-> TRUE, message |-> "network unreachable"],
     [is_error |-> FALSE, message |-> "network unreachable"]}

(* What reading json.content[0].text of an empty content array throws. *)
TypeErrorThrown ==
    [is_error |-> TRUE,
     message |-> "Cannot read properties of undefined (reading 'text')"]

Outcomes ==
    {[kind |-> "response", content |-> c, thrown |-> TypeErrorThrown] : c \in Responses}
    \cup {[kind |-> "throw", content |-> <<>>, thrown |-> e] : e \in Thrown}

NoOutcome == [kind |-> "none", content |-> <<>>, thrown |-> TypeErrorThrown]

----------------------------------------------------------------------------
(* One getCommentary() invocation.  pc is where it waits or how it ended:  *)
(* "setViewState" and "requestUrl" are its two awaits, "returned" a normal *)
(* return, "rejected" an exception that escaped it.                        *)

NewProc(trigger, now, after_error) ==
    [trigger |-> trigger,         \* "editor-change", or "manual" (ribbon, command)
     now |-> now,                 \* Date.now() read by the handler, -1 if none
     pc |-> "setViewState",
     end |-> "",                  \* how it ended, "" while it runs
     calls |-> 0,                 \* requestUrl invocations made by it
     req_no |-> 0,                \* position of its request among all requests
     sent_key |-> "",             \* the x-api-key header of its request
     outcome |-> NoOutcome,       \* how its request settled
     escaped |-> "",              \* message of the exception that escaped it
     after_error |-> after_error] \* history: an error had been reported before

(* The effects of a step of invocation id are threaded through a record:   *)
(* the invocation, the panel and the display history.                      *)
Ctx(id, proc) == [id |-> id, proc |-> proc, panel |-> panel, log |-> display_log]

NetworkCalls == LET Sum[i \in 0..Len(procs)] ==
                        IF i = 0 THEN 0 ELSE Sum[i - 1] + procs[i].calls
                IN Sum[Len(procs)]

(* A mutation of display: the previous content is not cleared. *)
displayWithoutEmpty(st, markdown, kind) ==
    [st EXCEPT !.panel = st.panel \o markdown,
               !.log = Append(st.log, [by |-> st.id, text |-> markdown, kind |-> kind])]

(* LlmCommentaryView.display: empty the container, render the markdown.    *)
(* kind is history only: which call site displayed.                        *)
display(st, markdown, kind) ==
    [st EXCEPT !.panel = markdown,
               !.log = Append(st.log, [by |-> st.id, text |-> markdown, kind |-> kind])]

(* assert(condition) failing: Error('Assertion failed') leaves the caller. *)
Throw(st, end) ==
    [st EXCEPT !.proc.pc = "rejected", !.proc.end = end,
               !.proc.escaped = ASSERTION_FAILED]

(* A mutation of the return: the invocation is left pending for good. *)
ReturnStuck(st, end) == [st EXCEPT !.proc.pc = "pending", !.proc.end = end]

Return(st, end) == [st EXCEPT !.proc.pc = "returned", !.proc.end = end]

(* A mutation of the comparison: nothing is suppressed. *)
IsWaitingResponseNever(text) == text # text

(* claude_response !== waiting_response, negated: the text is suppressed. *)
IsWaitingResponse(text) == text = waiting_response

(* A mutation of the gate: strictly more than the cooldown must elapse. *)
CooldownElapsedStrict(now, last) == now - last > COOLDOWN_MS

(* A mutation of the gate: every event passes. *)
CooldownElapsedAlways(now, last) == now - last >= now - last

(* A mutation of the gate: closed for good once an invocation has failed. *)
CooldownElapsedUnlessFailed(now, last) ==
    /\ now - last >= COOLDOWN_MS
    /\ \A i \in 1..Len(procs) : procs[i].end \notin
           {"activate_failed", "no_active_view", "error_displayed", "assert_failed"}

(* A mutation of the gate: closed while a request is in flight. *)
CooldownElapsedWhenIdle(now, last) ==
    /\ now - last >= COOLDOWN_MS
    /\ \A i \in 1..Len(procs) : procs[i].pc # "requestUrl"

(* A mutation of the gate: the distance from the last call, in either      *)
(* direction, is compared.                                                 *)
CooldownElapsedEitherWay(now, last) ==
    \/ now - last >= COOLDOWN_MS
    \/ last - now >= COOLDOWN_MS

(* now - this.last_api_call_timestamp >= 5000 *)
CooldownElapsed(now, last) == now - last >= COOLDOWN_MS

----------------------------------------------------------------------------
(* The code of activateView and getCommentary, between its awaits *)

(* activateView once the leaf is known (main.ts:118-127).  view_ok: the    *)
(* leaf's view is an LlmCommentaryView; key: settings.claudeApiKey.        *)
activateViewTail(st, view_ok, key) ==
    IF ~view_ok THEN Throw(st, "activate_failed")
    ELSE IF key = "" THEN display(st, NO_API_KEY_MESSAGE, "no_key")
    ELSE st

(* A mutation of getCommentary: requestUrl is called before the active    *)
(* view is looked up.                                                      *)
getCommentaryBodyCallFirst(st, key, active, req_no) ==
    IF st.proc.pc = "rejected" THEN st
    ELSE LET called == [st EXCEPT !.proc.calls = @ + 1, !.proc.req_no = req_no,
                                  !.proc.sent_key = key]
         IN IF ~active
            THEN Return(display(called, NO_ACTIVE_VIEW_MESSAGE, "no_view"),
                        "no_active_view")
            ELSE [called EXCEPT !.proc.pc = "requestUrl"]

(* A mutation of getCommentary: without an active view it returns silently. *)
getCommentaryBodyNoMessage(st, key, active, req_no) ==
    IF st.proc.pc = "rejected" THEN st
    ELSE IF ~active THEN Return(st, "no_active_view")
    ELSE [st EXCEPT !.proc.pc = "requestUrl", !.proc.calls = @ + 1,
                    !.proc.req_no = req_no, !.proc.sent_key = key]

(* getCommentary from the return of activateView to the await of           *)
(* requestUrl (main.ts:131-160).  active: getActiveViewOfType(MarkdownView)*)
(* found a view; req_no numbers the request this invocation makes.         *)
getCommentaryBody(st, key, active, req_no) ==
    IF st.proc.pc = "rejected" THEN st
    ELSE IF ~active
         THEN Return(display(st, NO_ACTIVE_VIEW_MESSAGE, "no_view"), "no_active_view")
    ELSE [st EXCEPT !.proc.pc = "requestUrl", !.proc.calls = @ + 1,
                    !.proc.req_no = req_no, !.proc.sent_key = key]

(* A mutation of the catch block: the error is swallowed. *)
catchSwallow(st, error) ==
    IF ~error.is_error THEN Throw(st, "assert_failed")
    ELSE Return(st, "error_displayed")

(* catch (error) { assert(error instanceof Error); view.display(error.message) } *)
catch(st, error) ==
    IF ~error.is_error THEN Throw(st, "assert_failed")
    ELSE Return(display(st, error.message, "error"), "error_displayed")

(* getCommentary after requestUrl settled (main.ts:162-172). *)
getCommentarySettled(st, outcome) ==
    IF outcome.kind = "throw" THEN catch(st, outcome.thrown)
    ELSE IF outcome.content = <<>> THEN catch(st, TypeErrorThrown)
    ELSE LET claude_response == outcome.content[1]
         IN IF ~IsWaitingResponse(claude_response)
            THEN Return(display(st, claude_response, "commentary"), "displayed")
            ELSE Return(st, "suppressed")

----------------------------------------------------------------------------
(* History helpers *)

NoEvent == [now |-> -1, markdown |-> FALSE, accepted |-> TRUE]

ErrorEnds == {"activate_failed", "no_active_view", "error_displayed", "assert_failed"}

ErrorSeen ==
    \/ \E i \in 1..Len(procs) : procs[i].end \in ErrorEnds
    \/ \E k \in 1..Len(display_log) : display_log[k].kind = "no_key"

----------------------------------------------------------------------------
(* Actions *)

Init ==
    /\ data \in StoredData
    /\ settings = loadSettings(data)
    /\ settings_target = ObjectAssignTarget
    /\ default_settings = IF settings_target = "DEFAULT_SETTINGS"
                          THEN settings ELSE DEFAULT_SETTINGS
    /\ last_api_call_timestamp = 0
    /\ leaf \in {"none", "ready"}
    /\ panel = ""
    /\ procs = <<>>
    /\ display_log = <<>>
    /\ first_edit = NoEvent
    /\ last_event = NoEvent
    /\ resolved = <<>>

(* this.getCommentary() up to its first await that yields to the host: the *)
(* synchronous part of activateView and, when the leaf exists already, the *)
(* rest of getCommentary up to requestUrl.                                 *)
getCommentary(trigger, now) ==
    /\ Len(procs) < MaxTriggers
    /\ LET id == Len(procs) + 1
           st0 == Ctx(id, NewProc(trigger, now, ErrorSeen))
           key == settings.claudeApiKey
       IN \E right_leaf \in BOOLEAN, active \in BOOLEAN :
            LET st == IF leaf = "none"
                      THEN IF right_leaf THEN st0 ELSE Throw(st0, "activate_failed")
                      ELSE getCommentaryBody(activateViewTail(st0, leaf = "ready", key),
                                             key, active, NetworkCalls + 1)
            IN /\ procs' = Append(procs, st.proc)
               /\ panel' = st.panel
               /\ display_log' = st.log
    /\ UNCHANGED <<settings_state, leaf, resolved>>

(* A mutation of the handler: the timestamp is recorded for every edit of  *)
(* a MarkdownView, dropped or not.                                         *)
EditorChangeStampsDropped ==
    \E now \in ClockValues, is_markdown \in BOOLEAN :
        LET accepted == is_markdown /\ CooldownElapsed(now, last_api_call_timestamp)
            event == [now |-> IF is_markdown THEN now ELSE -1,
                      markdown |-> is_markdown, accepted |-> accepted]
        IN /\ last_event' = event
           /\ first_edit' = IF is_markdown /\ first_edit = NoEvent
                            THEN event ELSE first_edit
           /\ IF accepted
              THEN /\ last_api_call_timestamp' = now
                   /\ getCommentary("editor-change", now)
              ELSE /\ last_api_call_timestamp' =
                         IF is_markdown THEN now ELSE last_api_call_timestamp
                   /\ UNCHANGED <<settings_state, leaf, panel, procs, display_log,
                                  resolved>>

(* A mutation of the handler: the view's kind is not looked at. *)
EditorChangeAnyView ==
    \E now \in ClockValues, is_markdown \in BOOLEAN :
        LET accepted == CooldownElapsed(now, last_api_call_timestamp)
            event == [now |-> IF is_markdown THEN now ELSE -1,
                      markdown |-> is_markdown, accepted |-> accepted]
        IN /\ last_event' = event
           /\ first_edit' = IF is_markdown /\ first_edit = NoEvent
                            THEN event ELSE first_edit
           /\ IF accepted
              THEN /\ last_api_call_timestamp' = now
                   /\ getCommentary("editor-change", now)
              ELSE UNCHANGED <<settings_state, last_api_call_timestamp, leaf, panel,
                               procs, display_log, resolved>>

(* The editor-change handler (main.ts:77-85).  Date.now() is read only for *)
(* a MarkdownView.                                                         *)
EditorChange ==
    \E now \in ClockValues, is_markdown \in BOOLEAN :
        LET accepted == is_markdown /\ CooldownElapsed(now, last_api_call_timestamp)
            event == [now |-> IF is_markdown THEN now ELSE -1,
                      markdown |-> is_markdown, accepted |-> accepted]
        IN /\ last_event' = event
           /\ first_edit' = IF is_markdown /\ first_edit = NoEvent
                            THEN event ELSE first_edit
           /\ IF accepted
              THEN /\ last_api_call_timestamp' = now
                   /\ getCommentary("editor-change", now)
              ELSE UNCHANGED <<settings_state, last_api_call_timestamp, leaf, panel,
                               procs, display_log, resolved>>

(* A mutation of the ribbon callback: it goes through the rate limiter. *)
RibbonClickRateLimited ==
    \E now \in ClockValues :
        /\ CooldownElapsed(now, last_api_call_timestamp)
        /\ last_api_call_timestamp' = now
        /\ getCommentary("manual", -1)
        /\ UNCHANGED <<first_edit, last_event>>

(* The ribbon icon's callback (main.ts:63-65). *)
RibbonClick ==
    /\ getCommentary("manual", -1)
    /\ UNCHANGED <<last_api_call_timestamp, first_edit, last_event>>

(* The command's callback (main.ts:67-73). *)
CommandCallback ==
    /\ getCommentary("manual", -1)
    /\ UNCHANGED <<last_api_call_timestamp, first_edit, last_event>>

(* leaf.setViewState settles: activateView and getCommentary go on up to   *)
(* requestUrl (main.ts:111-160).                                           *)
SetViewStateDone ==
    \E i \in 1..Len(procs), view_ok \in BOOLEAN, active \in BOOLEAN :
        /\ procs[i].pc = "setViewState"
        /\ LET key == settings.claudeApiKey
               st == getCommentaryBody(activateViewTail(Ctx(i, procs[i]), view_ok, key),
                                       key, active, NetworkCalls + 1)
           IN /\ procs' = [procs EXCEPT ![i] = st.proc]
              /\ panel' = st.panel
              /\ display_log' = st.log
        /\ leaf' = IF view_ok THEN "ready" ELSE "other"
        /\ UNCHANGED <<settings_state, last_api_call_timestamp, first_edit, last_event,
                       resolved>>

(* A mutation of the settling: a failed request gives the cooldown back. *)
RequestUrlSettlesRollback ==
    \E i \in 1..Len(procs), outcome \in Outcomes :
        /\ procs[i].pc = "requestUrl"
        /\ LET st == getCommentarySettled(
                         Ctx(i, [procs[i] EXCEPT !.outcome = outcome]), outcome)
           IN /\ procs' = [procs EXCEPT ![i] = st.proc]
              /\ panel' = st.panel
              /\ display_log' = st.log
              /\ last_api_call_timestamp' =
                    IF st.proc.end \in {"error_displayed", "assert_failed"}
                    THEN 0 ELSE last_api_call_timestamp
        /\ resolved' = Append(resolved, i)
        /\ UNCHANGED <<settings_state, leaf, first_edit, last_event>>

(* requestUrl settles: with a response, or by throwing (main.ts:141-172). *)
RequestUrlSettles ==
    \E i \in 1..Len(procs), outcome \in Outcomes :
        /\ procs[i].pc = "requestUrl"
        /\ LET st == getCommentarySettled(
                         Ctx(i, [procs[i] EXCEPT !.outcome = outcome]), outcome)
           IN /\ procs' = [procs EXCEPT ![i] = st.proc]
              /\ panel' = st.panel
              /\ display_log' = st.log
        /\ resolved' = Append(resolved, i)
        /\ UNCHANGED <<settings_state, last_api_call_timestamp, leaf, first_edit,
                       last_event>>

(* An onChange callback of the settings tab: the field of the object       *)
(* this.settings refers to is assigned, then saveSettings persists that    *)
(* object (main.ts:222-225, 231-234, 242-245, 97-99).                      *)
onChange(field, value) ==
    /\ settings_target # "none"
    /\ settings' = [settings EXCEPT ![field] = value]
    /\ data' = settings'
    /\ default_settings' = IF settings_target = "DEFAULT_SETTINGS"
                           THEN settings' ELSE default_settings
    /\ UNCHANGED <<settings_target, last_api_call_timestamp, leaf, panel, procs,
                   display_log, first_edit, last_event, resolved>>

(* The settings tab's API key field changes (main.ts:222-225). *)
OnChangeApiKey == \E value \in ApiKeys : onChange("claudeApiKey", value)

(* The settings tab's prompt field changes (main.ts:231-234). *)
OnChangePrompt == \E value \in Prompts : onChange("prompt", value)

(* The settings tab's model field changes (main.ts:242-245). *)
OnChangeModel == \E value \in Models : onChange("model", value)

Next ==
    \/ EditorChange
    \/ RibbonClick
    \/ CommandCallback
    \/ SetViewStateDone
    \/ RequestUrlSettles
    \/ OnChangeApiKey

Spec == Init /\ [][Next]_vars

(* The host settles every await: leaf.setViewState and requestUrl resolve  *)
(* or reject eventually.                                                   *)
FairSpec == Spec /\ WF_vars(SetViewStateDone) /\ WF_vars(RequestUrlSettles)

----------------------------------------------------------------------------
(* The settings alone: from the plugin's construction, before onload has   *)
(* loaded them, over every persisted object.                               *)

InitSettings ==
    /\ data \in PersistedData
    /\ settings = NoData
    /\ settings_target = "none"
    /\ default_settings = DEFAULT_SETTINGS
    /\ last_api_call_timestamp = 0
    /\ leaf = "none"
    /\ panel = ""
    /\ procs = <<>>
    /\ display_log = <<>>
    /\ first_edit = NoEvent
    /\ last_event = NoEvent
    /\ resolved = <<>>

(* this.settings = Object.assign({}, DEFAULT_SETTINGS, await this.loadData()) *)
(* (main.ts:93-95): the target receives the defaults' properties, then the *)
(* persisted ones, and this.settings refers to the target.                 *)
LoadSettings ==
    /\ settings_target = "none"
    /\ settings' = ObjectAssign(default_settings, data)
    /\ settings_target' = ObjectAssignTarget
    /\ default_settings' = IF settings_target' = "DEFAULT_SETTINGS"
                           THEN settings' ELSE default_settings
    /\ UNCHANGED <<data, last_api_call_timestamp, leaf, panel, procs, display_log,
                   first_edit, last_event, resolved>>

NextSettings ==
    \/ LoadSettings
    \/ OnChangeApiKey
    \/ OnChangePrompt
    \/ OnChangeModel

SpecSettings == InitSettings /\ [][NextSettings]_vars

----------------------------------------------------------------------------
(* Properties *)

EditProcs == {i \in 1..Len(procs) : procs[i].trigger = "editor-change"}

(* The display calls invocation i made, in order. *)
DisplayedBy(i) == SelectSeq(display_log, LAMBDA e : e.by = i)

(* The display calls of invocation i that show its request's result. *)
ResultsBy(i) == SelectSeq(display_log,
                          LAMBDA e : e.by = i /\ e.kind \in {"commentary", "error"})

GotSentinel(i) == /\ procs[i].outcome.kind = "response"
                  /\ procs[i].outcome.content = <<waiting_response>>

GotText(i) == /\ procs[i].outcome.kind = "response"
              /\ procs[i].outcome.content # <<>>
              /\ procs[i].outcome.content # <<waiting_response>>

(* The request of invocation i failed: requestUrl threw, or the response  *)
(* has no first text fragment.                                             *)
CallFailed(i) == \/ procs[i].outcome.kind = "throw"
                 \/ procs[i].outcome.kind = "response" /\ procs[i].outcome.content = <<>>

FailureOf(i) == IF procs[i].outcome.kind = "throw" THEN procs[i].outcome.thrown
                ELSE TypeErrorThrown

(* C1: any two invocations dispatched by the editor-change handler carry  *)
(* clock values at least the cooldown apart, the later one the larger.     *)
RateLimitInvariant ==
    \A i, j \in EditProcs : i < j => procs[j].now - procs[i].now >= COOLDOWN_MS

(* C1 witness: edits dispatched at 5000 and 11000, each with a request,    *)
(* and a later edit inside the window dropped.                             *)
RateLimitWitness ==
    /\ Len(procs) = 2
    /\ procs[1].trigger = "editor-change" /\ procs[1].now = 5000 /\ procs[1].calls = 1
    /\ procs[2].trigger = "editor-change" /\ procs[2].now = 11000 /\ procs[2].calls = 1
    /\ last_event.markdown /\ ~last_event.accepted /\ last_event.now = 11000

(* C2: with an empty API key no invocation calls requestUrl: an invocation *)
(* that showed the 'No API key set' message made no call, and no call      *)
(* carries an empty x-api-key.                                             *)
NoCallWithoutApiKey ==
    \A i \in 1..Len(procs) :
        /\ procs[i].calls > 0 => procs[i].sent_key # ""
        /\ (\E k \in 1..Len(display_log) :
                display_log[k].by = i /\ display_log[k].kind = "no_key")
           => procs[i].calls = 0

(* C3: an invocation whose response text equals the sentinel never calls   *)
(* display.                                                                *)
SuppressionInvariant ==
    \A i \in 1..Len(procs) : GotSentinel(i) => DisplayedBy(i) = <<>>

(* C4: an invocation whose response text differs from the sentinel calls   *)
(* display exactly once, with that text.                                   *)
DisplayedExactlyOnce ==
    \A i \in 1..Len(procs) :
        GotText(i) =>
            /\ Len(DisplayedBy(i)) = 1
            /\ DisplayedBy(i)[1].text = procs[i].outcome.content[1]

(* C5 as claimed: every accepted edit that has ended made exactly one call. *)
ExactlyOneCallPerAcceptedTrigger ==
    \A i \in EditProcs : procs[i].pc \in {"returned", "rejected"} => procs[i].calls = 1

(* C5 amended: an accepted edit makes at most one call: one once it has    *)
(* reached requestUrl, none while it waits for the view and none when the  *)
(* view activation failed or no markdown view was active.                  *)
AtMostOneCallPerAcceptedTrigger ==
    \A i \in EditProcs :
        /\ procs[i].calls <= 1
        /\ procs[i].calls = 1 <=>
              \/ procs[i].pc = "requestUrl"
              \/ procs[i].end \in {"displayed", "suppressed", "error_displayed",
                                   "assert_failed"}
        /\ procs[i].calls = 0 <=>
              \/ procs[i].pc = "setViewState"
              \/ procs[i].end \in {"activate_failed", "no_active_view"}

(* C5 witness: one accepted edit ended without a call for want of an       *)
(* active markdown view, another made its one call and showed the answer.  *)
CallCountWitness ==
    \E i, j \in EditProcs :
        /\ procs[i].end = "no_active_view" /\ procs[i].calls = 0
        /\ procs[j].end = "displayed" /\ procs[j].calls = 1

(* C6 as claimed: the first edit of a MarkdownView is accepted whatever    *)
(* the clock reads.                                                        *)
FirstEditAlwaysAccepted ==
    first_edit # NoEvent => first_edit.accepted

(* C6 amended: the first edit of a MarkdownView is accepted exactly when   *)
(* the clock reads at least the cooldown; it then is the first invocation  *)
(* of the handler and its clock value was recorded.                        *)
FirstEditAcceptedFromCooldown ==
    first_edit # NoEvent =>
        /\ first_edit.accepted <=> first_edit.now >= COOLDOWN_MS
        /\ first_edit.accepted =>
              /\ EditProcs # {}
              /\ \E i \in EditProcs :
                    /\ \A j \in EditProcs : i <= j
                    /\ procs[i].now = first_edit.now
              /\ last_api_call_timestamp >= first_edit.now
        /\ ~first_edit.accepted =>
              \A i \in EditProcs : procs[i].now # first_edit.now

(* C6 witness: the first edit came at exactly the cooldown and was accepted. *)
FirstEditWitness ==
    /\ first_edit # NoEvent
    /\ first_edit.now = COOLDOWN_MS
    /\ first_edit.accepted
    /\ \E i \in EditProcs : procs[i].now = COOLDOWN_MS

(* The display calls that show a request's result, in order. *)
ResultLog == SelectSeq(display_log, LAMBDA e : e.kind \in {"commentary", "error"})

(* The text display is to show for the settled request of invocation i. *)
ResultText(i) == IF GotText(i) THEN procs[i].outcome.content[1]
                 ELSE FailureOf(i).message

(* Invocation i settled with something to display: a text that is not the  *)
(* sentinel, or a failure that is an Error.                                *)
Displayable(i) == \/ GotText(i)
                  \/ CallFailed(i) /\ FailureOf(i).is_error

(* The invocations that settled with something to display, in the order    *)
(* they settled.                                                           *)
DisplayableResolved == SelectSeq(resolved, Displayable)

(* C7 as claimed: commentary of an earlier request is never displayed      *)
(* after commentary of a later request.                                    *)
NoStaleOverwrite ==
    \A k, l \in 1..Len(display_log) :
        (k < l /\ display_log[k].kind = "commentary" /\ display_log[l].kind = "commentary")
            => procs[display_log[k].by].req_no <= procs[display_log[l].by].req_no

(* At most one result is displayed per invocation, none for a sentinel. *)
OneResultPerTrigger ==
    \A i \in 1..Len(procs) :
        /\ Len(ResultsBy(i)) <= 1
        /\ GotSentinel(i) => ResultsBy(i) = <<>>

(* C7 amended: a request settling with the sentinel leaves the panel, and  *)
(* whatever commentary it shows, as it is, and every invocation displays   *)
(* at most one request result; nothing orders the results of overlapping   *)
(* requests by their dispatch.                                             *)
SentinelNeverReplaces ==
    [][/\ \A i \in 1..Len(procs) :
             (procs[i].pc = "requestUrl" /\ procs'[i].pc # "requestUrl"
              /\ procs'[i].outcome.content = <<waiting_response>>)
                 => (panel' = panel /\ display_log' = display_log)
       /\ OneResultPerTrigger']_vars

(* C7 witness: of two overlapping requests the earlier showed commentary,  *)
(* then the later settled with the sentinel and the commentary stayed.     *)
SentinelAfterCommentaryWitness ==
    /\ Len(procs) = 2
    /\ resolved = <<1, 2>>
    /\ procs[2].req_no = 2
    /\ GotText(1) /\ GotSentinel(2)
    /\ procs[1].sent_key # "" /\ procs[2].sent_key # ""
    /\ panel = procs[1].outcome.content[1]

FailureAlwaysCaught ==
    \A i \in 1..Len(procs) :
        CallFailed(i) =>
            /\ procs[i].pc = "returned"
            /\ ResultsBy(i) = <<[by |-> i, text |-> FailureOf(i).message, kind |-> "error"]>>

(* C9 amended: a failure that is an Error is caught, getCommentary returns *)
(* normally and displays its message once; a thrown value that is no Error *)
(* fails the assertion in the catch block, Error('Assertion failed')       *)
(* escapes getCommentary and nothing is displayed for it.                  *)
ErrorFailureCaught ==
    \A i \in 1..Len(procs) :
        CallFailed(i) =>
            IF FailureOf(i).is_error
            THEN /\ procs[i].pc = "returned"
                 /\ procs[i].escaped = ""
                 /\ ResultsBy(i) =
                       <<[by |-> i, text |-> FailureOf(i).message, kind |-> "error"]>>
            ELSE /\ procs[i].pc = "rejected"
                 /\ procs[i].escaped = ASSERTION_FAILED
                 /\ ResultsBy(i) = <<>>

(* C9 witness: requestUrl threw Error('network unreachable') and the panel *)
(* shows exactly that text.                                                *)
ErrorDisplayedWitness ==
    \E i \in 1..Len(procs) :
        /\ procs[i].outcome.kind = "throw"
        /\ procs[i].outcome.thrown = [is_error |-> TRUE, message |-> "network unreachable"]
        /\ procs[i].pc = "returned"
        /\ panel = "network unreachable"

(* C10: whatever failed before, an edit of a MarkdownView that comes at    *)
(* least the cooldown after the recorded timestamp is accepted: its clock  *)
(* value is recorded and a getCommentary invocation starts as any does.    *)
ReadyAfterError ==
    [][(/\ last_event' # last_event
        /\ last_event'.markdown
        /\ last_event'.now - last_api_call_timestamp >= COOLDOWN_MS)
          => /\ last_event'.accepted
             /\ last_api_call_timestamp' = last_event'.now
             /\ Len(procs') = Len(procs) + 1
             /\ SubSeq(procs', 1, Len(procs)) = procs
             /\ LET p == procs'[Len(procs')]
                IN /\ p.trigger = "editor-change"
                   /\ p.now = last_event'.now
                   /\ p.after_error = ErrorSeen
                   /\ \/ p.pc = "setViewState" /\ leaf = "none"
                      \/ p.end = "activate_failed" /\ leaf # "ready"
                      \/ p.end = "no_active_view" /\ leaf = "ready"
                      \/ p.pc = "requestUrl" /\ leaf = "ready" /\ p.calls = 1]_vars

(* C10 witness: after an invocation that ended in an error, an edit was    *)
(* accepted and sent its request.                                          *)
ReadyAfterErrorWitness ==
    /\ Len(procs) = 2
    /\ procs[1].end \in ErrorEnds
    /\ procs[2].trigger = "editor-change"
    /\ procs[2].after_error
    /\ procs[2].calls = 1
    /\ last_api_call_timestamp = procs[2].now

(* C11: an invocation that finds no active markdown view displays 'No      *)
(* active markdown view found.' as its last display call and makes no      *)
(* network call: its request never exists and nothing settles for it.      *)
NoActiveViewNoCall ==
    \A i \in 1..Len(procs) :
        procs[i].end = "no_active_view" =>
            /\ procs[i].pc = "returned"
            /\ procs[i].calls = 0
            /\ procs[i].req_no = 0
            /\ procs[i].outcome = NoOutcome
            /\ \A k \in 1..Len(resolved) : resolved[k] # i
            /\ DisplayedBy(i) # <<>>
            /\ DisplayedBy(i)[Len(DisplayedBy(i))] =
                  [by |-> i, text |-> NO_ACTIVE_VIEW_MESSAGE, kind |-> "no_view"]
            /\ \A k \in 1..Len(DisplayedBy(i)) :
                  DisplayedBy(i)[k].kind \in {"no_key", "no_view"}

(* C11 witness: with a key set, an edit found no active markdown view: the *)
(* panel shows the message and no request went out.                        *)
NoActiveViewWitness ==
    /\ Len(procs) = 1
    /\ procs[1].trigger = "editor-change"
    /\ procs[1].end = "no_active_view"
    /\ settings.claudeApiKey # ""
    /\ panel = NO_ACTIVE_VIEW_MESSAGE
    /\ NetworkCalls = 0

(* C12: an edit of a MarkdownView that the cooldown check rejects changes  *)
(* nothing: not the timestamp, not the invocations, not the panel; and an  *)
(* invocation starts only in the step of an accepted edit, whose clock     *)
(* value it carries, or of a manual trigger.                               *)
DropsNotDefers ==
    [][/\ (last_event' # last_event /\ last_event'.markdown /\ ~last_event'.accepted)
             => UNCHANGED <<settings_state, last_api_call_timestamp, leaf, panel,
                            procs, display_log, resolved>>
       /\ Len(procs') # Len(procs)
             => /\ Len(procs') = Len(procs) + 1
                /\ LET p == procs'[Len(procs')]
                   IN \/ /\ p.trigger = "manual"
                         /\ last_event' = last_event
                      \/ /\ p.trigger = "editor-change"
                         /\ last_event'.markdown /\ last_event'.accepted
                         /\ p.now = last_event'.now
                         /\ p.now - last_api_call_timestamp >= COOLDOWN_MS]_vars

(* C12 witness: an edit at 5000 was accepted and its request settled; the  *)
(* edit at 6000 was dropped and nothing was dispatched for it.             *)
DroppedEditWitness ==
    /\ Len(procs) = 1
    /\ procs[1].trigger = "editor-change" /\ procs[1].now = 5000
    /\ procs[1].pc = "returned"
    /\ last_event = [now |-> 6000, markdown |-> TRUE, accepted |-> FALSE]
    /\ last_api_call_timestamp = 5000
    /\ NetworkCalls = 1

(* C13: the ribbon icon and the command start getCommentary whatever the   *)
(* timestamp holds, and the step leaves the timestamp as it was; an edit   *)
(* is gated by the timestamp alone, so after a manual trigger still by the *)
(* clock value of the last accepted edit.                                  *)
ManualNotRateLimited ==
    [][/\ (Len(procs') = Len(procs) + 1 /\ procs'[Len(procs')].trigger = "manual")
             => /\ last_api_call_timestamp' = last_api_call_timestamp
                /\ last_event' = last_event
                /\ first_edit' = first_edit
                /\ procs'[Len(procs')].now = -1
       /\ Len(procs) < MaxTriggers => (ENABLED RibbonClick /\ ENABLED CommandCallback)
       /\ (last_event' # last_event /\ last_event'.markdown)
             => (last_event'.accepted <=>
                    last_event'.now - last_api_call_timestamp >= COOLDOWN_MS)]_vars

(* C13 witness: a manual trigger sent a request right after the edit       *)
(* accepted at 5000, the timestamp stayed 5000 and the edit at 6000 was    *)
(* dropped.                                                                *)
ManualAfterEditWitness ==
    /\ Len(procs) = 2
    /\ procs[1].trigger = "editor-change" /\ procs[1].now = 5000
    /\ procs[1].pc = "requestUrl"
    /\ procs[2].trigger = "manual" /\ procs[2].calls = 1
    /\ last_api_call_timestamp = 5000
    /\ last_event = [now |-> 6000, markdown |-> TRUE, accepted |-> FALSE]

(* The invocations whose request is in flight. *)
InFlight == {i \in 1..Len(procs) : procs[i].pc = "requestUrl"}

(* C14: while requests are in flight, an edit that passes the cooldown     *)
(* check is accepted and starts an invocation that, the view being ready,  *)
(* sends its own request (or reports that no markdown view is active); no  *)
(* trigger touches a request in flight; a request in flight can always     *)
(* settle, and when it does its response text is displayed, or suppressed  *)
(* if it is the sentinel.                                                  *)
InFlightNeverBlocksNorCancelled ==
    [][/\ (/\ InFlight # {}
           /\ last_event' # last_event
           /\ last_event'.markdown
           /\ last_event'.now - last_api_call_timestamp >= COOLDOWN_MS)
             => /\ last_event'.accepted
                /\ Len(procs') = Len(procs) + 1
                /\ LET p == procs'[Len(procs')]
                   IN /\ p.trigger = "editor-change"
                      /\ leaf = "ready" =>
                            \/ p.pc = "requestUrl" /\ p.calls = 1
                                  /\ p.req_no = NetworkCalls + 1
                            \/ p.end = "no_active_view"
       /\ Len(procs') # Len(procs)
             => \A i \in InFlight : procs'[i] = procs[i]
       /\ InFlight # {} => ENABLED RequestUrlSettles
       /\ \A i \in InFlight :
             procs'[i] # procs[i]
                => /\ procs'[i].pc \in {"returned", "rejected"}
                   /\ procs'[i].outcome \in Outcomes
                   /\ resolved' = Append(resolved, i)
                   /\ \A j \in InFlight \ {i} : procs'[j] = procs[j]
                   /\ (procs'[i].outcome.kind = "response"
                          /\ procs'[i].outcome.content # <<>>)
                         => LET text == procs'[i].outcome.content[1]
                            IN IF text = waiting_response
                               THEN /\ procs'[i].end = "suppressed"
                                    /\ display_log' = display_log
                                    /\ panel' = panel
                               ELSE /\ procs'[i].end = "displayed"
                                    /\ panel' = text
                                    /\ display_log' = Append(display_log,
                                           [by |-> i, text |-> text,
                                            kind |-> "commentary"])]_vars

(* C14 witness: an edit was accepted and sent the second request while the *)
(* first was in flight; the second settled first and was displayed, then   *)
(* the first settled with the sentinel and was suppressed.                 *)
OverlapWitness ==
    /\ Len(procs) = 2
    /\ procs[2].trigger = "editor-change"
    /\ procs[1].req_no = 1 /\ procs[2].req_no = 2
    /\ resolved = <<2, 1>>
    /\ procs[2].end = "displayed"
    /\ procs[1].end = "suppressed"
    /\ panel = procs[2].outcome.content[1]

Ended(i) == procs[i].pc \in {"returned", "rejected"}

(* The outcomes the claim names, as invocation i shows them. *)
CommentaryDisplayed(i) ==
    \E k \in 1..Len(display_log) :
        display_log[k].by = i /\ display_log[k].kind = "commentary"

ResponseSuppressed(i) == procs[i].end = "suppressed"

ErrorMessageDisplayed(i) ==
    \E k \in 1..Len(display_log) :
        display_log[k].by = i /\ display_log[k].kind \in {"error", "no_view", "no_key"}

EndConsistent(i) ==
    LET p == procs[i]
        results == ResultsBy(i)
        shown == DisplayedBy(i)
    IN CASE p.end = "displayed" ->
                /\ p.pc = "returned" /\ GotText(i)
                /\ Len(results) = 1
                /\ results[1].kind = "commentary"
                /\ results[1].text = p.outcome.content[1]
         [] p.end = "suppressed" ->
                /\ p.pc = "returned" /\ GotSentinel(i) /\ results = <<>>
         [] p.end = "error_displayed" ->
                /\ p.pc = "returned" /\ CallFailed(i)
                /\ Len(results) = 1
                /\ results[1].kind = "error"
                /\ results[1].text = FailureOf(i).message
         [] p.end = "no_active_view" ->
                /\ p.pc = "returned" /\ p.calls = 0 /\ results = <<>>
                /\ shown # <<>>
                /\ shown[Len(shown)].text = NO_ACTIVE_VIEW_MESSAGE
         [] p.end \in {"activate_failed", "assert_failed"} ->
                /\ p.pc = "rejected" /\ p.escaped = ASSERTION_FAILED
                /\ results = <<>>
                /\ \A k \in 1..Len(shown) : shown[k].kind = "no_key"
         [] OTHER -> FALSE

LatestEdit == CHOOSE i \in EditProcs : \A j \in EditProcs : j <= i

(* C16: a step changes last_api_call_timestamp only when the editor-change *)
(* handler accepts an event, to the clock value read for that event, in    *)
(* the step that starts the invocation; no step of an invocation already   *)
(* started changes it; and it stays the clock value of the latest accepted *)
(* edit however that invocation or any other ended.                        *)
TimestampWrittenOnlyByAccept ==
    [][/\ last_api_call_timestamp' # last_api_call_timestamp
             => /\ last_event'.markdown /\ last_event'.accepted
                /\ last_api_call_timestamp' = last_event'.now
                /\ Len(procs') = Len(procs) + 1
                /\ procs'[Len(procs')].trigger = "editor-change"
                /\ procs'[Len(procs')].now = last_api_call_timestamp'
       /\ (Len(procs') = Len(procs) + 1
              /\ procs'[Len(procs')].trigger = "editor-change")
             => last_api_call_timestamp' = procs'[Len(procs')].now
       /\ (\/ resolved' # resolved
           \/ \E i \in 1..Len(procs) : procs'[i] # procs[i])
             => last_api_call_timestamp' = last_api_call_timestamp
       /\ IF EditProcs' = {} THEN last_api_call_timestamp' = 0
          ELSE last_api_call_timestamp' = procs'[LatestEdit'].now]_vars

(* C16 witness: an accepted edit read 5000 and ended with an error message *)
(* displayed, another that made no call has ended too; the timestamp is    *)
(* still 5000 and an edit at 6000 was dropped.                             *)
CooldownConsumedWitness ==
    /\ Len(procs) = 2
    /\ procs[1].trigger = "editor-change" /\ procs[1].now = 5000
    /\ procs[1].end = "error_displayed"
    /\ procs[2].calls = 0 /\ procs[2].end \in {"no_active_view", "activate_failed"}
    /\ last_api_call_timestamp = 5000
    /\ last_event = [now |-> 6000, markdown |-> TRUE, accepted |-> FALSE]

(* C17: no step decreases last_api_call_timestamp; an edit event of a      *)
(* MarkdownView whose clock value is below the stored timestamp is dropped *)
(* and leaves the timestamp as it was.                                     *)
TimestampNeverDecreases ==
    [][/\ last_api_call_timestamp' >= last_api_call_timestamp
       /\ (/\ last_event' # last_event
           /\ last_event'.markdown
           /\ last_event'.now < last_api_call_timestamp)
             => /\ ~last_event'.accepted
                /\ last_api_call_timestamp' = last_api_call_timestamp
                /\ procs' = procs]_vars

(* C17 witness: the timestamp is 11000 and the latest edit event, which    *)
(* read the earlier clock value 0, was dropped; an invocation is pending.  *)
ClockBackwardsWitness ==
    /\ last_api_call_timestamp = 11000
    /\ last_event = [now |-> 0, markdown |-> TRUE, accepted |-> FALSE]
    /\ Len(procs) = 1 /\ procs[1].now = 11000

(* C18: an editor-change event whose view is no MarkdownView is not        *)
(* accepted, whatever the stored timestamp: it starts no invocation, sends *)
(* no request, displays nothing and leaves last_api_call_timestamp and the *)
(* rest of the plugin's state unchanged; every invocation the handler      *)
(* starts is for an event of a MarkdownView.                               *)
OnlyMarkdownViewsAreCandidates ==
    [][/\ (last_event' # last_event /\ ~last_event'.markdown)
             => /\ ~last_event'.accepted
                /\ UNCHANGED <<settings_state, last_api_call_timestamp, leaf, panel,
                               procs, display_log, resolved, first_edit>>
       /\ (Len(procs') = Len(procs) + 1
              /\ procs'[Len(procs')].trigger = "editor-change")
             => last_event'.markdown /\ last_event'.accepted]_vars

(* C18 witness: the latest editor-change event came from another kind of   *)
(* view while the timestamp was still 0, so that any clock value of 5000   *)
(* or more would have passed the gate; nothing was started.                *)
OtherViewIgnoredWitness ==
    /\ last_event.now = -1 /\ ~last_event.markdown /\ ~last_event.accepted
    /\ last_event # NoEvent
    /\ last_api_call_timestamp = 0
    /\ procs = <<>> /\ display_log = <<>>

(* C19: the step that loads the settings leaves them with all of the       *)
(* three fields, each the persisted value when the stored data has the     *)
(* field and the DEFAULT_SETTINGS value otherwise, and leaves the stored   *)
(* data as it was; in no step, loading or a later edit of a field, do the  *)
(* properties of the DEFAULT_SETTINGS object change, and this.settings     *)
(* never refers to that object.                                            *)
LoadMergesFieldByField ==
    [][/\ (settings_target = "none" /\ settings_target' # "none")
             => /\ SettingFields \subseteq DOMAIN settings'
                /\ \A f \in SettingFields :
                      settings'[f] = IF f \in DOMAIN data THEN data[f]
                                     ELSE DEFAULT_SETTINGS[f]
                /\ data' = data
       /\ default_settings = DEFAULT_SETTINGS
       /\ default_settings' = DEFAULT_SETTINGS
       /\ settings_target' # "DEFAULT_SETTINGS"
       /\ (settings_target # "none" /\ settings' # settings)
             => /\ data' = settings'
                /\ Cardinality({f \in SettingFields : settings'[f] # settings[f]}) = 1]_vars

(* C19 witness: the stored data had only a prompt; the settings have been  *)
(* loaded and hold that prompt with the default key and the default model, *)
(* and the defaults are still the defaults.                                *)
PartialDataMergedWitness ==
    /\ settings_target = "new"
    /\ DOMAIN data = {"prompt"}
    /\ data.prompt = "Comment as a copy editor."
    /\ settings = [claudeApiKey |-> DEFAULT_SETTINGS.claudeApiKey,
                   prompt |-> "Comment as a copy editor.",
                   model |-> DEFAULT_SETTINGS.model]
    /\ default_settings = DEFAULT_SETTINGS
====
